---- MODULE Spec2Model ----
(***************************************************************************)
(* Gym Face Entry System (src/GYM/gym.py): the three CSV tables, the       *)
(* config file, the photo directory and the page handlers that change      *)
(* them.  One action per submitted form / pressed button; each action is   *)
(* the whole handler, from its load_*() calls to its save_*() calls.       *)
(*                                                                         *)
(* Distances are in tenths (0.6 is 6).  Dates and times are the strings    *)
(* strftime produces, taken from the tables DateStr and TimeStr.           *)
(***************************************************************************)
EXTENDS Integers, Sequences, FiniteSets, TLC

VARIABLES
    members,      \* rows of members.csv, as pd.read_csv(...).fillna("") reads them
    attendance,   \* rows of attendance.csv, read the same way
    deleted,      \* rows of deleted_members.csv, read the same way
    headers,      \* header row of each of the three files
    images,       \* paths of the files that exist in member_images/
    config,       \* content of config.json, NoConfig when the file is absent
    clock,        \* datetime.now(): [day, tick]
    last          \* the handler that ran last and the message it showed

vars == <<members, attendance, deleted, headers, images, config, clock, last>>

----------------------------------------------------------------------------
(* Bounds of the model *)

MaxMembers == 2
MaxDeleted == 1
MaxTick == 2

(* Inputs: member IDs typed into the form ("" leaves it blank for an auto *)
(* ID), names, and the distances DeepFace reports, in tenths             *)
ExplicitIDs == {"1", "02", "NA"}
Names == {"Al", "A l"}
Distances == {3, 6, 8}

----------------------------------------------------------------------------
(* Program constants *)

DISTANCE_THRESHOLD == 6
BEST_DIST_INIT == 1000000000
IMG_DIR == "member_images"

MEM_COLS == <<"ID","Name","Gender","Email","Mobile","Membership","Fee","JoinDate","ImagePath">>
ATT_COLS == <<"ID","Name","Date","EntryTime","ExitTime","Status">>
DEL_COLS == <<"ID","Name","Gender","Email","Mobile","Membership","Fee","JoinDate","ImagePath","DeletedAt">>

None == <<>>
Some(x) == <<x>>
\* load_config() of an absent config.json is {}: both keys read as empty
NoConfig == [admin_email |-> "", admin_pass |-> ""]

----------------------------------------------------------------------------
(* Strings: formatting and parsing *)

DateStr == <<"2024-01-01", "2024-01-02", "2024-01-03", "2024-01-04">>
TimeStr == <<"09:00:00", "10:00:00", "11:00:00", "12:00:00">>

\* now.strftime("%Y-%m-%d"), now.strftime("%H:%M:%S"), str(datetime.now())
Today == DateStr[clock.day]
NowTime == TimeStr[clock.tick]
NowStamp == DateStr[clock.day] \o " " \o TimeStr[clock.tick]

\* str(n) for the integers the model reaches
PyStr(n) == <<"1","2","3","4","5","6","7","8","9">>[n]

\* int(v): the strings of the model that int() accepts, with their values
IntLiterals == {<<"1",1>>, <<"2",2>>, <<"3",3>>, <<"4",4>>, <<"5",5>>,
                <<"6",6>>, <<"7",7>>, <<"8",8>>, <<"9",9>>,
                <<"01",1>>, <<"02",2>>, <<"03",3>>}
IsInt(v) == \E p \in IntLiterals : p[1] = v
PyInt(v) == (CHOOSE p \in IntLiterals : p[1] = v)[2]

\* name filter of save_member_image: keep alnum, space, underscore; strip;
\* spaces to underscores
SafeName(name) ==
    CASE name = "Al"  -> "Al"
      [] name = "A l" -> "A_l"
      [] name = "A_l" -> "A_l"
      [] OTHER        -> name

ImagePathOf(member_id, name) ==
    IMG_DIR \o "/" \o member_id \o "_" \o SafeName(name) \o ".jpg"

----------------------------------------------------------------------------
(* CSV files *)

\* The strings pd.read_csv turns into NaN (its default na_values) also
\* under dtype=str; fillna("") then makes them "".
NA_VALUES == {"", "#N/A", "#N/A N/A", "#NA", "-1.#IND", "-1.#QNAN", "-NaN",
              "-nan", "1.#IND", "1.#QNAN", "<NA>", "N/A", "NA", "NULL",
              "NaN", "None", "n/a", "nan", "null"}

ReadField(s) == IF s \in NA_VALUES THEN "" ELSE s

ReadRow(r) == [k \in DOMAIN r |-> ReadField(r[k])]

ReadCsv(rows) == [i \in 1..Len(rows) |-> ReadRow(rows[i])]

\* df.to_csv(FILE) followed by the next pd.read_csv(FILE, dtype=str).fillna("")
save_members(df) == ReadCsv(df)
save_attendance(df) == ReadCsv(df)
save_deleted(df) == ReadCsv(df)

load_members == members
load_attendance == attendance
load_deleted == deleted

\* ensure_csv_files: a file that is absent is created with its header
ensure_csv_files(present) ==
    [f \in {"members", "attendance", "deleted"} |->
        IF f \in present THEN headers[f]
        ELSE CASE f = "members"    -> MEM_COLS
               [] f = "attendance" -> ATT_COLS
               [] f = "deleted"    -> DEL_COLS]

----------------------------------------------------------------------------
(* Helpers on tables *)

IDsOf(rows) == {rows[i].ID : i \in 1..Len(rows)}

RowsWithID(rows, id) == {i \in 1..Len(rows) : rows[i].ID = id}

FirstWithID(rows, id) == rows[CHOOSE i \in RowsWithID(rows, id) :
                                 \A j \in RowsWithID(rows, id) : i <= j]

Max(S) == CHOOSE x \in S : \A y \in S : y <= x

\* generate_member_id
generate_member_id ==
    LET m == load_members
        nums == {PyInt(m[i].ID) : i \in {j \in 1..Len(m) : IsInt(m[j].ID)}}
    IN  IF Len(m) = 0 THEN "1"
        ELSE IF nums = {} THEN "1"
        ELSE PyStr(Max(nums) + 1)

----------------------------------------------------------------------------
(* Email *)

MailOutcomes == {"sent", "failed"}

\* send_email_using_config: (False, "SMTP not configured") without a config,
\* else the outcome of the SMTP exchange
send_email_using_config(cfg, smtp) ==
    IF cfg.admin_email = "" \/ cfg.admin_pass = "" THEN "notconfigured" ELSE smtp

NoOp == [op |-> "start", outcome |-> "", id |-> "", mail |-> "none"]

Done(op, outcome, id, mail) ==
    [op |-> op, outcome |-> outcome, id |-> id, mail |-> mail]

----------------------------------------------------------------------------
Init ==
    /\ members = <<>>
    /\ attendance = <<>>
    /\ deleted = <<>>
    /\ headers = [f \in {"members", "attendance", "deleted"} |->
                    CASE f = "members"    -> MEM_COLS
                      [] f = "attendance" -> ATT_COLS
                      [] f = "deleted"    -> DEL_COLS]
    /\ images = {}
    /\ config = NoConfig
    /\ clock = [day |-> 1, tick |-> 1]
    /\ last = NoOp

----------------------------------------------------------------------------
(* Register Member.  A row carries ID, Name and ImagePath; the columns     *)
(* Gender, Email, Mobile, Membership, Fee and JoinDate are written and     *)
(* rewritten exactly as Name is and read by no handler.                    *)

\* save_member_image: the path it returns (dflt when it raises: its callers
\* keep "" or the old path then) and the files that exist afterwards
save_member_image(member_id, name, io, dflt) ==
    LET path == ImagePathOf(member_id, name)
    IN  [path  |-> IF io = "saved" THEN path ELSE dflt,
         files |-> IF io = "raised_nofile" THEN images ELSE images \cup {path}]

RegisterMissing ==
    /\ last' = Done("register", "MissingFields", "", "none")
    /\ UNCHANGED <<members, attendance, deleted, headers, images, config, clock>>

\* (a variant that sends the email first and gives up when it is not sent)
Register_MailFirst(id_input, name, io, smtp) ==
    LET loaded == load_members
        member_id == IF id_input # "" THEN id_input ELSE generate_member_id
        mail == send_email_using_config(config, smtp)
    IN  IF member_id \in IDsOf(loaded)
        THEN /\ last' = Done("register", "DuplicateID", member_id, "none")
             /\ UNCHANGED <<members, attendance, deleted, headers, images,
                            config, clock>>
        ELSE LET img == save_member_image(member_id, name, io, "")
                 new_row == [ID |-> member_id, Name |-> name,
                             ImagePath |-> img.path]
             IN  /\ Len(loaded) < MaxMembers
                 /\ last' = Done("register", "Registered", member_id, mail)
                 /\ IF mail = "sent"
                    THEN /\ members' = save_members(Append(loaded, new_row))
                         /\ images' = img.files
                    ELSE UNCHANGED <<members, images>>
                 /\ UNCHANGED <<attendance, deleted, headers, config, clock>>

Register(id_input, name, io, smtp) ==
    LET loaded == load_members
        member_id == IF id_input # "" THEN id_input ELSE generate_member_id
    IN  IF member_id \in IDsOf(loaded)
        THEN /\ last' = Done("register", "DuplicateID", member_id, "none")
             /\ UNCHANGED <<members, attendance, deleted, headers, images,
                            config, clock>>
        ELSE LET img == save_member_image(member_id, name, io, "")
                 new_row == [ID |-> member_id, Name |-> name,
                             ImagePath |-> img.path]
             IN  /\ Len(loaded) < MaxMembers
                 /\ members' = save_members(Append(loaded, new_row))
                 /\ images' = img.files
                 /\ last' = Done("register", "Registered", member_id,
                                 send_email_using_config(config, smtp))
                 /\ UNCHANGED <<attendance, deleted, headers, config, clock>>

\* the form, over the inputs ids, names, image-write outcomes, SMTP outcomes
RegisterAction(ids, names, ios, smtps) ==
    \E id_input \in ids, name \in names, io \in ios, smtp \in smtps :
         Register(id_input, name, io, smtp)

----------------------------------------------------------------------------
(* Update / Delete Member *)

\* the IDs the selectbox offers and the page accepts:
\* sel_id and sel_id != "--select--"
Selectable == {id \in IDsOf(load_members) : id # "" /\ id # "--select--"}

\* members.loc[ID == sel_id, [...]] = [...]
UpdateRows(rows, sel_id, name, img_path) ==
    [i \in 1..Len(rows) |->
        IF rows[i].ID = sel_id
        THEN [ID |-> rows[i].ID, Name |-> name, ImagePath |-> img_path]
        ELSE rows[i]]

Update(sel_id, name, new_photo, io, smtp) ==
    LET loaded == load_members
        member == FirstWithID(loaded, sel_id)
        img == IF new_photo
               THEN save_member_image(sel_id, name, io, member.ImagePath)
               ELSE [path |-> member.ImagePath, files |-> images]
    IN  /\ members' = save_members(UpdateRows(loaded, sel_id, name, img.path))
        /\ images' = img.files
        /\ last' = Done("update", "Updated", sel_id,
                        send_email_using_config(config, smtp))
        /\ UNCHANGED <<attendance, deleted, headers, config, clock>>

UpdateAction(names, ios, smtps) ==
    \E sel_id \in Selectable, name \in names, smtp \in smtps :
         \/ Update(sel_id, name, FALSE, "saved", smtp)
         \/ \E io \in ios : Update(sel_id, name, TRUE, io, smtp)

\* rows of a table whose ID differs from sel_id
WithoutID(rows, sel_id) == SelectSeq(rows, LAMBDA r : r.ID # sel_id)

\* (a variant that leaves the attendance table alone)
Delete_NoCascade(sel_id, smtp) ==
    LET loaded == load_members
        row == FirstWithID(loaded, sel_id)
        archived == [ID |-> row.ID, Name |-> row.Name,
                     ImagePath |-> row.ImagePath, DeletedAt |-> NowStamp]
    IN  /\ Len(deleted) < MaxDeleted
        /\ deleted' = save_deleted(Append(load_deleted, archived))
        /\ images' = IF row.ImagePath # "" /\ row.ImagePath \in images
                     THEN images \ {row.ImagePath} ELSE images
        /\ members' = save_members(WithoutID(loaded, sel_id))
        /\ last' = Done("delete", "Deleted", sel_id,
                        send_email_using_config(config, smtp))
        /\ UNCHANGED <<attendance, headers, config, clock>>

\* (a variant whose cascade removes the attendance records of today only)
Delete_CascadeToday(sel_id, smtp) ==
    LET loaded == load_members
        row == FirstWithID(loaded, sel_id)
        archived == [ID |-> row.ID, Name |-> row.Name,
                     ImagePath |-> row.ImagePath, DeletedAt |-> NowStamp]
    IN  /\ Len(deleted) < MaxDeleted
        /\ deleted' = save_deleted(Append(load_deleted, archived))
        /\ images' = IF row.ImagePath # "" /\ row.ImagePath \in images
                     THEN images \ {row.ImagePath} ELSE images
        /\ members' = save_members(WithoutID(loaded, sel_id))
        /\ attendance' = save_attendance(SelectSeq(load_attendance,
                LAMBDA r : ~(r.ID = sel_id /\ r.Date = Today)))
        /\ last' = Done("delete", "Deleted", sel_id,
                        send_email_using_config(config, smtp))
        /\ UNCHANGED <<headers, config, clock>>

Delete(sel_id, smtp) ==
    LET loaded == load_members
        row == FirstWithID(loaded, sel_id)
        archived == [ID |-> row.ID, Name |-> row.Name,
                     ImagePath |-> row.ImagePath, DeletedAt |-> NowStamp]
    IN  /\ Len(deleted) < MaxDeleted
        /\ deleted' = save_deleted(Append(load_deleted, archived))
        /\ images' = IF row.ImagePath # "" /\ row.ImagePath \in images
                     THEN images \ {row.ImagePath} ELSE images
        /\ members' = save_members(WithoutID(loaded, sel_id))
        /\ attendance' = save_attendance(WithoutID(load_attendance, sel_id))
        /\ last' = Done("delete", "Deleted", sel_id,
                        send_email_using_config(config, smtp))
        /\ UNCHANGED <<headers, config, clock>>

DeleteAction(smtps) ==
    \E sel_id \in Selectable, smtp \in smtps : Delete(sel_id, smtp)

----------------------------------------------------------------------------
(* Reset DB, the SMTP settings form, and the passing of time *)

\* (a variant that forgets config.json)
ResetDB_KeepConfig ==
    /\ members' = <<>>
    /\ attendance' = <<>>
    /\ deleted' = <<>>
    /\ images' = {}
    /\ headers' = ensure_csv_files({})
    /\ last' = Done("reset", "Reset", "", "none")
    /\ UNCHANGED <<clock, config>>

ResetDB ==
    /\ members' = <<>>
    /\ attendance' = <<>>
    /\ deleted' = <<>>
    /\ config' = NoConfig
    /\ images' = {}
    /\ headers' = ensure_csv_files({})
    /\ last' = Done("reset", "Reset", "", "none")
    /\ UNCHANGED clock

SaveSMTP ==
    /\ config' = [admin_email |-> "admin@gym", admin_pass |-> "app-pass"]
    /\ last' = Done("smtp", "Saved", "", "none")
    /\ UNCHANGED <<members, attendance, deleted, headers, images, clock>>

\* datetime.now() moves on: later the same day, or into the next day
Tick ==
    /\ clock.tick < MaxTick
    /\ clock' = [clock EXCEPT !.tick = @ + 1]
    /\ UNCHANGED <<members, attendance, deleted, headers, images, config, last>>

NextDay ==
    /\ clock.tick < MaxTick
    /\ clock' = [day |-> clock.day + 1, tick |-> clock.tick + 1]
    /\ UNCHANGED <<members, attendance, deleted, headers, images, config, last>>

----------------------------------------------------------------------------
(* Face verification and the identity resolver *)

\* What DeepFace.verify can do on one comparison: raise, or return a dict
\* with "verified" and, when a distance key is present and parses, a distance
DeepFaceResults ==
    {[raised |-> TRUE, verified |-> FALSE, distance |-> None]} \cup
    {[raised |-> FALSE, verified |-> v, distance |-> d] :
        v \in BOOLEAN, d \in {None} \cup {Some(x) : x \in Distances}}

\* try_verify_faces: (match, distance)
try_verify_faces(res) ==
    IF res.raised THEN [match |-> FALSE, distance |-> None]
    ELSE [match    |-> IF res.distance # None
                       THEN res.distance[1] <= DISTANCE_THRESHOLD
                       ELSE res.verified,
          distance |-> res.distance]

\* (a variant that never skips a member)
HasPhoto_Always(row, files) == TRUE

\* os.path.exists(member_img) and member_img non-empty
HasPhoto(row, files) == row.ImagePath # "" /\ row.ImagePath \in files

\* The probe photo, as what DeepFace answers for it against each member's
\* stored photo; a member whose photo is skipped is never compared
FaceInputs(rows, files, results) ==
    {f \in [1..Len(rows) -> results \cup {[raised |-> TRUE,
                                           verified |-> FALSE,
                                           distance |-> None]}] :
        \A i \in 1..Len(rows) :
            ~HasPhoto(rows[i], files) => f[i] = [raised |-> TRUE,
                                                 verified |-> FALSE,
                                                 distance |-> None]}

ScanInit == [best |-> None, best_dist |-> BEST_DIST_INIT,
             stopped |-> FALSE, compared |-> {}]

\* (a variant without the break on a distance within the threshold)
ScanStep_NoBreak(st, i, row, res, files) ==
    IF st.stopped THEN st
    ELSE IF ~HasPhoto(row, files) THEN st
    ELSE LET v == try_verify_faces(res)
             st1 == [st EXCEPT !.compared = @ \cup {i}]
         IN  IF v.distance = None
             THEN IF v.match
                  THEN [st1 EXCEPT !.best = <<i, None>>, !.stopped = TRUE]
                  ELSE st1
             ELSE IF v.distance[1] < st1.best_dist
                  THEN [st1 EXCEPT !.best_dist = v.distance[1],
                                   !.best = <<i, v.distance>>]
                  ELSE st1

\* one iteration of the for loop over members.iterrows(); stopped is the break
ScanStep(st, i, row, res, files) ==
    IF st.stopped THEN st
    ELSE IF ~HasPhoto(row, files) THEN st
    ELSE LET v == try_verify_faces(res)
             st1 == [st EXCEPT !.compared = @ \cup {i}]
         IN  IF v.distance = None
             THEN IF v.match
                  THEN [st1 EXCEPT !.best = <<i, None>>, !.stopped = TRUE]
                  ELSE st1
             ELSE LET d == v.distance[1]
                      st2 == IF d < st1.best_dist
                             THEN [st1 EXCEPT !.best_dist = d,
                                              !.best = <<i, v.distance>>]
                             ELSE st1
                  IN  IF d <= DISTANCE_THRESHOLD
                      THEN [st2 EXCEPT !.stopped = TRUE]
                      ELSE st2

RECURSIVE ScanFrom(_, _, _, _, _)
ScanFrom(st, i, rows, faces, files) ==
    IF i > Len(rows) THEN st
    ELSE ScanFrom(ScanStep(st, i, rows[i], faces[i], files), i + 1,
                  rows, faces, files)

\* (a variant that takes the best candidate without the threshold test)
Resolve_AcceptBest(rows, faces, files) ==
    LET st == ScanFrom(ScanInit, 1, rows, faces, files)
    IN  IF st.best = None
        THEN [result |-> "NoMatchFound", index |-> 0, compared |-> st.compared]
        ELSE [result |-> "match", index |-> st.best[1],
              compared |-> st.compared]

\* the scan and the test after it: "NoMatchFound" (best is None),
\* "NotSufficient" (is_match false) or "match" with the member's index
Resolve(rows, faces, files) ==
    LET st == ScanFrom(ScanInit, 1, rows, faces, files)
    IN  IF st.best = None
        THEN [result |-> "NoMatchFound", index |-> 0, compared |-> st.compared]
        ELSE LET dist == st.best[2]
                 is_match == \/ dist # None /\ dist[1] <= DISTANCE_THRESHOLD
                             \/ dist = None
             IN  IF is_match
                 THEN [result |-> "match", index |-> st.best[1],
                       compared |-> st.compared]
                 ELSE [result |-> "NotSufficient", index |-> 0,
                       compared |-> st.compared]

----------------------------------------------------------------------------
(* Attendance - Entry and Attendance - Exit *)

\* (a variant that looks at open records only)
RecordsFor_OpenOnly(rows, idstr, today) ==
    {i \in 1..Len(rows) : /\ rows[i].ID = idstr /\ rows[i].Date = today
                          /\ rows[i].ExitTime = ""}

\* attendance[(ID == idstr) & (Date == today)]
RecordsFor(rows, idstr, today) ==
    {i \in 1..Len(rows) : rows[i].ID = idstr /\ rows[i].Date = today}

\* (a variant whose mask forgets the date)
OpenRecordsFor_AnyDay(rows, idstr, today) ==
    {i \in 1..Len(rows) : rows[i].ID = idstr /\ rows[i].ExitTime = ""}

\* mask & (ExitTime == "")
OpenRecordsFor(rows, idstr, today) ==
    {i \in RecordsFor(rows, idstr, today) : rows[i].ExitTime = ""}

Min(S) == CHOOSE x \in S : \A y \in S : x <= y

CameraFailed(op) ==
    /\ last' = Done(op, "CameraReadFailed", "", "none")
    /\ UNCHANGED <<members, attendance, deleted, headers, images, config, clock>>

NoMembers(op) ==
    /\ Len(load_members) = 0
    /\ last' = Done(op, "NoMembers", "", "none")
    /\ UNCHANGED <<members, attendance, deleted, headers, images, config, clock>>

\* (a variant without the "exists" test)
markEntry_NoGuard(row) ==
    /\ attendance' = save_attendance(Append(load_attendance,
            [ID |-> row.ID, Name |-> row.Name, Date |-> Today,
             EntryTime |-> NowTime, ExitTime |-> "", Status |-> "Present"]))
    /\ last' = Done("entry", "EntryRecorded", row.ID, "none")

\* the page's branch for a matched member (lines 384-395)
markEntry(row) ==
    LET att == load_attendance
        idstr == row.ID
        new_entry == [ID |-> idstr, Name |-> row.Name, Date |-> Today,
                      EntryTime |-> NowTime, ExitTime |-> "",
                      Status |-> "Present"]
    IN  IF RecordsFor(att, idstr, Today) # {}
        THEN /\ last' = Done("entry", "AlreadyMarked", idstr, "none")
             /\ UNCHANGED attendance
        ELSE /\ attendance' = save_attendance(Append(att, new_entry))
             /\ last' = Done("entry", "EntryRecorded", idstr, "none")

\* the page's branch for a matched member (lines 450-463)
markExit(row) ==
    LET att == load_attendance
        idstr == row.ID
        open_rows == OpenRecordsFor(att, idstr, Today)
    IN  IF open_rows = {}
        THEN /\ last' = Done("exit", "NoOpenEntry", idstr, "none")
             /\ UNCHANGED attendance
        ELSE LET idx == Min(open_rows)
             IN  /\ attendance' = save_attendance(
                        [att EXCEPT ![idx].ExitTime = NowTime,
                                    ![idx].Status = "Exited"])
                 /\ last' = Done("exit", "ExitRecorded", idstr, "none")

AttendanceEntry(faces) ==
    LET loaded == load_members
        r == Resolve(loaded, faces, images)
    IN  /\ Len(loaded) > 0
        /\ IF r.result = "match"
           THEN markEntry(loaded[r.index])
           ELSE /\ last' = Done("entry", r.result, "", "none")
                /\ UNCHANGED attendance
        /\ UNCHANGED <<members, deleted, headers, images, config, clock>>

AttendanceExit(faces) ==
    LET loaded == load_members
        r == Resolve(loaded, faces, images)
    IN  /\ Len(loaded) > 0
        /\ IF r.result = "match"
           THEN markExit(loaded[r.index])
           ELSE /\ last' = Done("exit", r.result, "", "none")
                /\ UNCHANGED attendance
        /\ UNCHANGED <<members, deleted, headers, images, config, clock>>

EntryAction(results) ==
    \E faces \in FaceInputs(load_members, images, results) :
        AttendanceEntry(faces)

ExitAction(results) ==
    \E faces \in FaceInputs(load_members, images, results) :
        AttendanceExit(faces)

----------------------------------------------------------------------------
(* Specifications.  The handlers are the same in each; a specification     *)
(* names the sets its handlers' inputs are drawn from.                     *)

\* a probe that a stored photo either matches at 0.3 or cannot be compared to
FewResults == {[raised |-> FALSE, verified |-> TRUE, distance |-> Some(3)]}

\* photo written, or save_member_image raising before any file exists
PhotoOrNone == {"saved", "raised_nofile"}

\* Every page of the application
Next ==
    \/ RegisterMissing
    \/ RegisterAction({"", "NA"}, {"Al"}, PhotoOrNone, MailOutcomes)
    \/ UpdateAction({"Al"}, PhotoOrNone, MailOutcomes)
    \/ DeleteAction(MailOutcomes)
    \/ CameraFailed("entry")
    \/ NoMembers("entry")
    \/ EntryAction(FewResults)
    \/ CameraFailed("exit")
    \/ NoMembers("exit")
    \/ ExitAction(FewResults)
    \/ ResetDB
    \/ SaveSMTP
    \/ Tick
    \/ NextDay

Spec == Init /\ [][Next]_vars

\* The member pages, with explicit and automatic IDs and both names
NextIds ==
    \/ RegisterMissing
    \/ RegisterAction(ExplicitIDs \cup {""}, Names, {"saved"}, {"failed"})
    \/ UpdateAction(Names, {"saved"}, {"failed"})
    \/ DeleteAction({"failed"})
    \/ ResetDB

SpecIds == Init /\ [][NextIds]_vars

\* The attendance pages, with every answer DeepFace can give
NextResolve ==
    \/ RegisterAction({""}, {"Al"}, PhotoOrNone, {"failed"})
    \/ CameraFailed("entry")
    \/ NoMembers("entry")
    \/ EntryAction(DeepFaceResults)
    \/ CameraFailed("exit")
    \/ NoMembers("exit")
    \/ ExitAction(DeepFaceResults)
    \/ Tick
    \/ NextDay

SpecResolve == Init /\ [][NextResolve]_vars
----------------------------------------------------------------------------
(* Properties of the attendance ledger *)

\* the records of table rows for member id on date d, and the open ones
RecordsOn(rows, id, d) ==
    {i \in 1..Len(rows) : rows[i].ID = id /\ rows[i].Date = d}

OpenOn(rows, id, d) ==
    {i \in 1..Len(rows) :
        rows[i].ID = id /\ rows[i].Date = d /\ rows[i].ExitTime = ""}

\* A step of the Attendance - Entry (Exit) page: only those pages write
\* their name into last, and only the clock's steps keep last while they
\* change the clock
EntryStep == last'.op = "entry" /\ clock' = clock
ExitStep == last'.op = "exit" /\ clock' = clock

\* C1: the Attendance table never holds two records with the same member ID
\* and the same Date, hence never two open records for one (ID, Date)
C1_OneRecordPerMemberDay ==
    \A i, j \in 1..Len(attendance) :
        (/\ attendance[i].ID = attendance[j].ID
         /\ attendance[i].Date = attendance[j].Date) => i = j

\* a second entry was refused while the table holds records of two days
C1_Witness ==
    /\ last.op = "entry" /\ last.outcome = "AlreadyMarked"
    /\ \E i, j \in 1..Len(attendance) :
          /\ attendance[i].ID = attendance[j].ID
          /\ attendance[i].Date # attendance[j].Date

\* C2: an Attendance-Entry step that matched a member is refused with
\* AlreadyMarked, the table unchanged and holding exactly one record for
\* (ID, today), when a record for (ID, today) exists, open or closed; only
\* when none exists does the step append one record, with EntryTime set,
\* ExitTime absent and Status Present, and it changes no other record
C2_StepRefused ==
    (EntryStep /\ last'.outcome = "AlreadyMarked") =>
        /\ RecordsOn(attendance, last'.id, Today) # {}
        /\ attendance' = attendance
        /\ Cardinality(RecordsOn(attendance', last'.id, Today)) = 1

C2_StepRecorded ==
    (EntryStep /\ last'.outcome = "EntryRecorded") =>
        LET n == Len(attendance)
        IN  /\ RecordsOn(attendance, last'.id, Today) = {}
            /\ Len(attendance') = n + 1
            /\ \A i \in 1..n : attendance'[i] = attendance[i]
            /\ attendance'[n + 1].ID = last'.id
            /\ attendance'[n + 1].Date = Today
            /\ attendance'[n + 1].EntryTime = NowTime
            /\ attendance'[n + 1].EntryTime # ""
            /\ attendance'[n + 1].ExitTime = ""
            /\ attendance'[n + 1].Status = "Present"

C2_StepElse ==
    (EntryStep /\ attendance' # attendance) => last'.outcome = "EntryRecorded"

C2_EntryRejectsSecond ==
    [][C2_StepRefused /\ C2_StepRecorded /\ C2_StepElse]_vars

\* a second entry was refused for a member whose record of today is closed
C2_Witness ==
    /\ last.op = "entry" /\ last.outcome = "AlreadyMarked"
    /\ \E i \in 1..Len(attendance) :
          /\ attendance[i].ID = last.id
          /\ attendance[i].Date = Today
          /\ attendance[i].Status = "Exited"

\* C3: an Attendance-Exit step that matched a member succeeds only when an
\* open record exists for (ID, today): it then sets ExitTime and
\* Status=Exited on one such record and leaves that record's other fields
\* and every other record as they were, so that (ID, today) has exactly one
\* row, with EntryTime set, ExitTime set and Status Exited; with no open
\* record for (ID, today) it is refused with NoOpenEntry, the table unchanged
C3_StepRecorded ==
    (ExitStep /\ last'.outcome = "ExitRecorded") =>
        LET id == last'.id
            open == OpenOn(attendance, id, Today)
        IN  /\ open # {}
            /\ Len(attendance') = Len(attendance)
            /\ \E k \in open :
                 /\ attendance'[k] = [attendance[k] EXCEPT
                                        !.ExitTime = NowTime,
                                        !.Status = "Exited"]
                 /\ attendance'[k].EntryTime = attendance[k].EntryTime
                 /\ attendance'[k].EntryTime # ""
                 /\ attendance'[k].ExitTime # ""
                 /\ RecordsOn(attendance', id, Today) = {k}
                 /\ \A i \in 1..Len(attendance) :
                       i # k => attendance'[i] = attendance[i]

C3_StepRefused ==
    (ExitStep /\ last'.outcome = "NoOpenEntry") =>
        /\ OpenOn(attendance, last'.id, Today) = {}
        /\ attendance' = attendance

C3_StepElse ==
    (ExitStep /\ attendance' # attendance) => last'.outcome = "ExitRecorded"

C3_ExitClosesOpenRecord ==
    [][C3_StepRecorded /\ C3_StepRefused /\ C3_StepElse]_vars

\* an exit was recorded later than the entry, beside another member's record
C3_Witness ==
    /\ last.op = "exit" /\ last.outcome = "ExitRecorded"
    /\ \E i, j \in 1..Len(attendance) :
          /\ attendance[i].ID = last.id
          /\ attendance[i].Status = "Exited"
          /\ attendance[i].ExitTime # attendance[i].EntryTime
          /\ attendance[j].ID # last.id

----------------------------------------------------------------------------
(* Properties of the identity resolver *)

\* every probe: what DeepFace can answer against each stored photo
AnyFaces == FaceInputs(members, images, DeepFaceResults)

\* the members whose stored photo exists
WithPhoto == {i \in 1..Len(members) :
                 members[i].ImagePath # "" /\ members[i].ImagePath \in images}

\* an answer with a distance within 0.6, or no distance and a true verdict
Accepting(res) ==
    /\ ~res.raised
    /\ \/ res.distance # None /\ res.distance[1] <= 6
       \/ res.distance = None /\ res.verified

Accepted(faces) == {i \in WithPhoto : Accepting(faces[i])}

\* C7: the resolver returns a member if and only if, for some member with a
\* stored photo, the distance is <= 0.6 or there is no distance and the
\* verdict is true; otherwise (a best-seen distance above 0.6 included) the
\* result is no match
C7_MatchIffAccepting ==
    \A faces \in AnyFaces :
        LET r == Resolve(members, faces, images)
        IN  /\ r.result = "match" <=> Accepted(faces) # {}
            /\ r.result = "match" => r.index \in Accepted(faces)
            /\ r.result # "match" => r.index = 0

\* an attempt ended "did not match sufficiently": a candidate was seen, its
\* distance above the threshold
C7_Witness ==
    /\ last.op \in {"entry", "exit"} /\ last.outcome = "NotSufficient"
    /\ WithPhoto # {}

\* C8: the member returned is the first, in listing order, whose answer is
\* accepting; members without photo are skipped, and no member after the
\* one returned is compared.  With two members with photos at distances
\* 0.8 and 0.3 the second is returned
C8_FirstAcceptingWins ==
    \A faces \in AnyFaces :
        LET r == Resolve(members, faces, images)
            acc == Accepted(faces)
        IN  /\ acc # {} =>
                 /\ r.index \in acc
                 /\ \A i \in acc : r.index <= i
                 /\ r.compared = {i \in WithPhoto : i <= r.index}
            /\ r.compared \subseteq WithPhoto
            /\ (/\ WithPhoto = {1, 2}
                /\ faces[1].distance = Some(8)
                /\ faces[2].distance = Some(3)) => r.index = 2

\* an entry was recorded for the second of two members who both have photos
C8_Witness ==
    /\ last.op = "entry" /\ last.outcome = "EntryRecorded"
    /\ WithPhoto = {1, 2}
    /\ last.id = members[2].ID

\* C9: an attendance attempt that ends without a match (no members, no
\* candidate, or a candidate above the threshold) leaves Attendance and
\* Members unchanged; with no members the attempt can only end so, and with
\* no stored photo the resolver never matches
C9_NoPhotoNoMatch ==
    WithPhoto = {} =>
        \A faces \in AnyFaces : Resolve(members, faces, images).result # "match"

C9_Step ==
    /\ ((EntryStep \/ ExitStep) /\
          last'.outcome \in {"NoMembers", "NoMatchFound", "NotSufficient"}) =>
              attendance' = attendance /\ members' = members
    /\ ((EntryStep \/ ExitStep) /\ (Len(members) = 0 \/ WithPhoto = {})) =>
              last'.outcome \in {"NoMembers", "NoMatchFound", "CameraReadFailed"}

C9_NoMatchWritesNothing == [](C9_NoPhotoNoMatch) /\ [][C9_Step]_vars

\* an attempt found no candidate although members are registered and a
\* record is on the table
C9_Witness ==
    /\ last.op \in {"entry", "exit"} /\ last.outcome = "NoMatchFound"
    /\ Len(members) > 0 /\ Len(attendance) > 0

----------------------------------------------------------------------------
(* Properties of the member pages *)

\* A step of the Delete button: it alone writes "delete" into last
DeleteStep == last'.op = "delete" /\ clock' = clock /\ members' # members

\* the rows of a table, in order, whose ID is not id
Others(rows, id) == SelectSeq(rows, LAMBDA r : r.ID # id)

\* C4: after a deletion of member id no row of Members has that ID,
\* DeletedMembers has gained one row, the member's row plus a DeletedAt
\* timestamp, no attendance record has that ID, and the rows of the other
\* members and their attendance records are all still there
C4_Step ==
    DeleteStep =>
        LET id == last'.id
            n == Len(deleted)
        IN  /\ id \in IDsOf(members)
            /\ id \notin IDsOf(members')
            /\ Len(deleted') = n + 1
            /\ \A i \in 1..n : deleted'[i] = deleted[i]
            /\ \E k \in 1..Len(members) :
                 /\ members[k].ID = id
                 /\ \A f \in DOMAIN members[k] :
                       deleted'[n + 1][f] = members[k][f]
            /\ DOMAIN deleted'[n + 1] =
                   DOMAIN members[1] \cup {"DeletedAt"}
            /\ deleted'[n + 1].DeletedAt = NowStamp
            /\ id \notin IDsOf(attendance')
            /\ members' = Others(members, id)
            /\ attendance' = Others(attendance, id)

C4_DeleteArchivesAndCascades == [][C4_Step]_vars

\* a member was deleted while another member and
\* that member's attendance record stay
C4_Witness ==
    /\ last.op = "delete"
    /\ Len(deleted) = 1 /\ deleted[1].ID = last.id
    /\ Len(members) = 1 /\ Len(attendance) >= 1
    /\ \A i \in 1..Len(attendance) : attendance[i].ID = members[1].ID

\* A step of the Register form that added a row
RegisterStep ==
    /\ last'.op = "register" /\ last'.outcome = "Registered"
    /\ clock' = clock /\ members' # members

\* the numeric IDs of a table, as generate_member_id reads them
NumericIDs(rows) == {PyInt(id) : id \in {x \in IDsOf(rows) : IsInt(x)}}

\* C5: a registration under a non-empty ID that no row has adds exactly one
\* row, Members then has exactly one row with that ID, and
\* generate_member_id then returns a number above every numeric ID of
\* Members ("1" when Members has none)
C5_Step ==
    (RegisterStep /\ last'.id # "" /\ last'.id \notin IDsOf(members)) =>
        LET g == generate_member_id'
        IN  /\ Len(members') = Len(members) + 1
            /\ Cardinality({i \in 1..Len(members') :
                               members'[i].ID = last'.id}) = 1
            /\ IsInt(g)
            /\ \A n \in NumericIDs(members') : PyInt(g) > n
            /\ NumericIDs(members') = {} => g = "1"

C5_RegisterAddsOneRow == [][C5_Step]_vars

\* C6: no two rows of Members share an ID; a registration under an ID that
\* a row has is refused with DuplicateID and leaves Members unchanged, and
\* no registration succeeds under such an ID; Update changes no row's ID
C6_Unique ==
    \A i, j \in 1..Len(members) : members[i].ID = members[j].ID => i = j

C6_Step ==
    /\ (last'.op = "register" /\ last'.outcome = "DuplicateID") =>
           members' = members
    /\ (RegisterStep /\ last'.id # "") => last'.id \notin IDsOf(members)
    /\ (last'.op = "update" /\ clock' = clock) =>
           /\ Len(members') = Len(members)
           /\ \A i \in 1..Len(members) : members'[i].ID = members[i].ID

C6_UniqueImmutableID == [](C6_Unique) /\ [][C6_Step]_vars

\* C10: Reset DB leaves Members, Attendance and DeletedMembers empty under
\* their original headers, config.json gone and the photo directory empty,
\* and the next registration with a blank ID gets ID "1"
C10_AfterReset ==
    last.op = "reset" =>
        /\ members = <<>> /\ attendance = <<>> /\ deleted = <<>>
        /\ headers.members = MEM_COLS
        /\ headers.attendance = ATT_COLS
        /\ headers.deleted = DEL_COLS
        /\ config = NoConfig
        /\ images = {}

C10_NextAutoID ==
    \A name \in Names, io \in PhotoOrNone, smtp \in MailOutcomes :
        (last.op = "reset" /\ Register("", name, io, smtp)) =>
            /\ last'.outcome = "Registered"
            /\ Len(members') = 1
            /\ members'[1].ID = "1"

C10_ResetClearsAll == [](C10_AfterReset) /\ [][C10_NextAutoID]_vars

\* Reset DB has run
C10_Witness == last.op = "reset" /\ last.outcome = "Reset"

----------------------------------------------------------------------------
(* Notifications *)

\* what send_email_using_config can answer: sent, skipped, failed
MailResults == {"sent", "notconfigured", "failed"}

\* A step of the handler op that ended with the message outcome
Committed(op, outcome) ==
    /\ last'.op = op /\ last'.outcome = outcome
    /\ clock' = clock /\ vars' # vars

\* the ImagePath a row of member id can hold
PathsOf(id) == {""} \cup {ImagePathOf(id, n) : n \in Names}

C11_Register ==
    Committed("register", "Registered") =>
        /\ \E name \in Names, path \in PathsOf(last'.id) :
              members' = save_members(Append(members,
                  [ID |-> last'.id, Name |-> name, ImagePath |-> path]))
        /\ attendance' = attendance
        /\ deleted' = deleted

C11_Update ==
    Committed("update", "Updated") =>
        /\ last'.id \in IDsOf(members)
        /\ \E name \in Names, path \in PathsOf(last'.id) :
              members' = save_members(UpdateRows(members, last'.id, name, path))
        /\ attendance' = attendance
        /\ deleted' = deleted

C11_Delete ==
    Committed("delete", "Deleted") =>
        /\ last'.id \in IDsOf(members)
        /\ members' = Others(members, last'.id)
        /\ attendance' = Others(attendance, last'.id)
        /\ Len(deleted') = Len(deleted) + 1
        /\ SubSeq(deleted', 1, Len(deleted)) = deleted
        /\ deleted'[Len(deleted')].ID = last'.id

\* C11: whatever the notification did (sent, skipped for want of SMTP
\* settings, or failed), a Register, Update or Delete that reports success
\* has made its change to Members, DeletedMembers and Attendance, the same
\* change in the three cases, and has made it once: one row added, the rows
\* of one ID rewritten, or one row archived and the rows of one ID removed
C11_Step ==
    \A m \in MailResults :
        last'.mail = m => (C11_Register /\ C11_Update /\ C11_Delete)

----------------------------------------------------------------------------
(* The photo directory *)

\* the files of member_images/ named for member id: "{id}_{safe_name}.jpg"
PhotosOf(id) == images \cap {ImagePathOf(id, n) : n \in Names}

\* the IDs of DeletedMembers that no row of Members has
GoneIDs == IDsOf(deleted) \ IDsOf(members)

\* C12: member_images/ holds at most one file named for each member of
\* Members and no file named for a member who was deleted (and has not been
\* registered again), whatever Register, Update and Delete did before
C12_OnePhotoPerMember ==
    /\ \A id \in IDsOf(members) : Cardinality(PhotosOf(id)) <= 1
    /\ \A id \in GoneIDs : PhotosOf(id) = {}

----------------------------------------------------------------------------
(* Members and their attendance records *)

\* C13: every attendance record carries the ID of a row of Members; a
\* registration under the ID of a deleted member leaves no attendance record
\* with that ID; and an Entry that matches a member who has no attendance
\* record is recorded, with today's date, whether or not a member of that
\* ID was deleted earlier the same day
C13_Referential == IDsOf(attendance) \subseteq IDsOf(members)

C13_ReRegistered ==
    (Committed("register", "Registered") /\ last'.id \in IDsOf(deleted)) =>
        /\ last'.id \in IDsOf(members')
        /\ last'.id \notin IDsOf(attendance')

C13_CanEnter ==
    (/\ EntryStep
     /\ last'.outcome \in {"EntryRecorded", "AlreadyMarked"}
     /\ last'.id \notin IDsOf(attendance)) =>
        /\ last'.outcome = "EntryRecorded"
        /\ RecordsFor(attendance', last'.id, Today) # {}

C13_LedgerRefersToMembers ==
    /\ [](C13_Referential)
    /\ [][C13_ReRegistered /\ C13_CanEnter]_vars

\* a member registered under the ID of a member deleted today has marked
\* entry today
C13_Witness ==
    /\ last.op = "entry" /\ last.outcome = "EntryRecorded"
    /\ last.id \in IDsOf(members)
    /\ \E k \in 1..Len(deleted), t \in 1..Len(TimeStr) :
          /\ deleted[k].ID = last.id
          /\ deleted[k].DeletedAt = Today \o " " \o TimeStr[t]
    /\ RecordsFor(attendance, last.id, Today) # {}
====
